---- MODULE Spec2Model ----
(***************************************************************************)
(* check50: the dependency-ordered check pipeline (the check decorator,    *)
(* Checks, TestResult) and the interactive process harness (Child).        *)
(*                                                                         *)
(* One check at a time is run as a unittest test case: the decorator's     *)
(* wrapper gates on the dependency, stages the directory and runs the      *)
(* body; the body is a sequence of calls on the Checks instance and on     *)
(* the Child objects it spawned; tearDown kills the children; the outcome  *)
(* is handed to TestResult.                                                *)
(***************************************************************************)
EXTENDS Integers, Sequences, FiniteSets, TLC

\* ------------------------------------------------------------------ bounds
NChecks == 3        \* checks declared in the check set
MaxOps == 3         \* calls the check bodies of one run make in all
MaxObjs == 2        \* Child objects (spawned, or made by on) per check
MaxErrors == 3      \* errors in a valgrind report
MaxFrames == 2      \* frames in the stack of an error
MaxLen == 4         \* characters a process writes, or a File holds
Timeout == 2        \* clock ticks of the timeout a wait is given

\* ------------------------------------------------------------------ values
\* Checks.PASS / FAIL / SKIP; "NONE" is config.test_results.get of a name
\* without an entry.
PASS == "PASS"
FAIL == "FAIL"
SKIP == "SKIP"
NONE == "NONE"

Names == 1..NChecks

\* A rationale or error message: None, a string, or a Mismatch object.
Str(t) == [kind |-> "str", text |-> t, expected |-> <<>>, actual |-> <<>>]
NoneMsg == [kind |-> "None", text |-> "", expected |-> <<>>, actual |-> <<>>]
Mismatch(e, a) == [kind |-> "Mismatch", text |-> "", expected |-> e, actual |-> a]

\* Python truth value of a message: only None and "" are false.
Truthy(m) == ~(m.kind = "None" \/ (m.kind = "str" /\ m.text = ""))

MsgFrown == Str("can't check until a frown turns upside down")
MsgGeneric == Str("check50 ran into an error while running checks!")
MsgPrompt == Str("expected prompt for input, found none")
MsgReject == Str("expected program to reject input, but it did not")
MsgAscii == Str("output not valid ASCII text")
MsgSegv == Str("failed to execute program due to segmentation fault")
MsgTimeout == Str("timed out while waiting for program to exit")
MsgBody == Str("raised by the check body")

\* What a process may write during one wait, before normalisation.
RawOutputs == { <<>>, <<"\n", "a", "\r", "\n">> }
\* Expected outputs a body passes to stdout / match (plain patterns).
Expecteds == { <<"a">>, <<"b">> }
Hints == { "hint" }
ExitCodes == { "0", "1" }

\* ----------------------------------------------------------- pure helpers
RECURSIVE ReplaceCRLF(_)
\* str.replace("\r\n", "\n")
ReplaceCRLF(s) ==
    IF s = <<>> THEN <<>>
    ELSE IF Len(s) >= 2 /\ s[1] = "\r" /\ s[2] = "\n"
         THEN <<"\n">> \o ReplaceCRLF(SubSeq(s, 3, Len(s)))
         ELSE <<s[1]>> \o ReplaceCRLF(Tail(s))

RECURSIVE LStripNL(_)
\* str.lstrip("\n")
LStripNL(s) ==
    IF s # <<>> /\ s[1] = "\n" THEN LStripNL(Tail(s)) ELSE s

\* the buffer with its leading newlines stripped, line ends as they came
Normalize_NoCRLF(raw) == LStripNL(raw)

\* "".join(out).replace("\r\n", "\n").lstrip("\n")
Normalize(raw) == LStripNL(ReplaceCRLF(raw))

\* re.match(pattern, buf) for a pattern without metacharacters
IsPrefix(p, s) == Len(p) <= Len(s) /\ SubSeq(s, 1, Len(p)) = p

Last(s) == s[Len(s)]


\* --------------------------------------------------- exceptions and returns
\* An exception in flight: none, the structured Error (rationale, helpers,
\* result, __context__), or any other exception, named by its type.
NoExc == [type |-> "None", rationale |-> NoneMsg, helpers |-> "None",
          result |-> NONE, context |-> "None"]
Error(rationale, helpers, result) ==
    [type |-> "Error", rationale |-> rationale, helpers |-> helpers,
     result |-> result, context |-> "None"]
\* e = Error("timed out ..."); e.__context__ = TIMEOUT(timeout)
TimedOut == [Error(MsgTimeout, "None", FAIL) EXCEPT !.context = "TIMEOUT"]
Other(type) == [type |-> type, rationale |-> NoneMsg, helpers |-> "None",
                result |-> NONE, context |-> "None"]

\* The value a call returns: nothing (it raised), a Child, or an exit code.
RetNone == [kind |-> "None", obj |-> 0, code |-> "None"]
RetChild(c) == [kind |-> "Child", obj |-> c, code |-> "None"]
RetCode(x) == [kind |-> "code", obj |-> 0, code |-> x]

\* The outcome of one call: the objects after it, what it raised, what it
\* returned.
Returns(h, r) == [h |-> h, exc |-> NoExc, ret |-> r]
Raises(h, e) == [h |-> h, exc |-> e, ret |-> RetNone]

\* ------------------------------------------------------------- the objects
\* Status() and Payload()
NewPayload == [output |-> <<>>, exit |-> "None", error_message |-> Str(""),
               help_message |-> ""]
\* a freshly spawned pexpect child
NewProc == [alive |-> TRUE, closed |-> FALSE, exitstatus |-> "None",
            signalstatus |-> "None", sent |-> <<>>]
\* Child(test, child): a Status of its own, the payload it is given
NewChild(p, q) == [proc |-> p, pay |-> q, failed |-> FALSE]

ProcOf(h, c) == h.procs[h.objs[c].proc]
PayOf(h, c) == h.pays[h.objs[c].pay]
Logged(h, line) == [h EXCEPT !.log = Append(@, line)]

\* What the process does on its own during one timed window.
Fates(pr) == IF pr.alive THEN {"alive", "exit0", "exit1", "segv", "eof"}
             ELSE {"dead"}
\* Where invalid bytes, if any, are met: in the polling loop or in the drain.
Bads(fate) == IF fate = "alive" THEN {"none", "loop"} ELSE {"none", "loop", "drain"}

ProcAfter(pr, fate) ==
    CASE fate = "exit0" -> [pr EXCEPT !.alive = FALSE, !.exitstatus = "0"]
      [] fate = "exit1" -> [pr EXCEPT !.alive = FALSE, !.exitstatus = "1"]
      [] fate = "segv" -> [pr EXCEPT !.alive = FALSE, !.signalstatus = "SIGSEGV"]
      [] OTHER -> pr

\* ------------------------------------------------------------------- Child
\* fail with the flag taken from the message: fail() without one clears it
fail_FlagFromMessage(h, c, error_message) ==
    LET q == h.objs[c].pay IN
    [h EXCEPT !.objs[c].failed = Truthy(error_message),
              !.pays[q].error_message =
                  IF ~Truthy(@) THEN error_message ELSE @]

\* fail without the test that keeps the first message
fail_Overwrites(h, c, error_message) ==
    [h EXCEPT !.objs[c].failed = TRUE,
              !.pays[h.objs[c].pay].error_message = error_message]

\* Child.fail
fail(h, c, error_message) ==
    LET q == h.objs[c].pay IN
    [h EXCEPT !.objs[c].failed = TRUE,
              !.pays[q].error_message =
                  IF ~Truthy(@) THEN error_message ELSE @]

\* Child.kill: close(force=True)
kill(h, c) ==
    LET p == h.objs[c].proc
        pr == h.procs[p] IN
    IF pr.closed THEN h
    ELSE [h EXCEPT !.procs[p] =
            [pr EXCEPT !.closed = TRUE, !.alive = FALSE,
                       !.signalstatus = IF pr.alive THEN "SIGHUP" ELSE @]]

\* wait raising its timeout Error without the TIMEOUT context
wait_NoContext(h, c, fate, raw, bad) ==
    LET p == h.objs[c].proc
        q == h.objs[c].pay
        pr == h.procs[p]
        h0 == [h EXCEPT !.procs[p] = ProcAfter(pr, fate)]
    IN
    IF pr.closed
    THEN Raises(h, Other("ValueError"))
    ELSE IF bad = "loop"
    THEN Returns(fail(h0, c, MsgAscii), RetChild(c))
    ELSE IF fate = "alive"
    THEN Raises(h0, Error(MsgTimeout, "None", FAIL))
    ELSE IF bad = "drain"
    THEN Raises(h0, Other("UnicodeDecodeError"))
    ELSE LET h1 == [h0 EXCEPT !.pays[q].output = Normalize(raw)]
             h2 == kill(h1, c)
         IN IF h2.procs[p].signalstatus = "SIGSEGV"
            THEN Returns(fail(h2, c, MsgSegv), RetChild(c))
            ELSE Returns([h2 EXCEPT !.pays[q].exit = h2.procs[p].exitstatus],
                         RetChild(c))

\* wait letting the deadline surface as pexpect's TIMEOUT, not as an Error
wait_RaisesTIMEOUT(h, c, fate, raw, bad) ==
    LET p == h.objs[c].proc
        q == h.objs[c].pay
        pr == h.procs[p]
        h0 == [h EXCEPT !.procs[p] = ProcAfter(pr, fate)]
    IN
    IF pr.closed
    THEN Raises(h, Other("ValueError"))
    ELSE IF bad = "loop"
    THEN Returns(fail(h0, c, MsgAscii), RetChild(c))
    ELSE IF fate = "alive"
    THEN Raises(h0, Other("TIMEOUT"))
    ELSE IF bad = "drain"
    THEN Raises(h0, Other("UnicodeDecodeError"))
    ELSE LET h1 == [h0 EXCEPT !.pays[q].output = Normalize(raw)]
             h2 == kill(h1, c)
         IN IF h2.procs[p].signalstatus = "SIGSEGV"
            THEN Returns(fail(h2, c, MsgSegv), RetChild(c))
            ELSE Returns([h2 EXCEPT !.pays[q].exit = h2.procs[p].exitstatus],
                         RetChild(c))

\* Child.wait
wait(h, c, fate, raw, bad) ==
    LET p == h.objs[c].proc
        q == h.objs[c].pay
        pr == h.procs[p]
        h0 == [h EXCEPT !.procs[p] = ProcAfter(pr, fate)]
    IN
    IF pr.closed
    THEN \* isalive() is false: break; the drain reads a closed child
         Raises(h, Other("ValueError"))
    ELSE IF bad = "loop"
    THEN Returns(fail(h0, c, MsgAscii), RetChild(c))
    ELSE IF fate = "alive"
    THEN Raises(h0, TimedOut)
    ELSE IF bad = "drain"
    THEN Raises(h0, Other("UnicodeDecodeError"))
    ELSE LET h1 == [h0 EXCEPT !.pays[q].output = Normalize(raw)]
             h2 == kill(h1, c)
         IN IF h2.procs[p].signalstatus = "SIGSEGV"
            THEN Returns(fail(h2, c, MsgSegv), RetChild(c))
            ELSE Returns([h2 EXCEPT !.pays[q].exit = h2.procs[p].exitstatus],
                         RetChild(c))

\* Child.match; expected is a plain pattern or a File read literally
match(h, c, expected) ==
    IF h.objs[c].failed THEN Returns(h, RetChild(c))
    ELSE IF expected.kind = "EOF"
    THEN \* re.match(EOF, ...) with the exception class EOF for a pattern
         Raises(Logged(h, "checking for EOF..."), Other("TypeError"))
    ELSE LET h1 == Logged(h, "checking for output...")
             out == PayOf(h1, c).output
             ok == IF expected.kind = "file" THEN expected.s = out
                   ELSE IsPrefix(expected.s, out)
         IN IF ~ok
            THEN Returns(fail(h1, c, Mismatch(expected.s, ReplaceCRLF(out))),
                         RetChild(c))
            ELSE Returns(h1, RetChild(c))

\* Child.stdin
stdin(h, c, line, prompt, seen) ==
    LET p == h.objs[c].proc
        h1 == Logged(h, IF line = "EOF" THEN "sending EOF..."
                        ELSE "sending input...")
    IN
    IF h.objs[c].failed THEN Returns(h, RetChild(c))
    ELSE IF prompt /\ h.procs[p].closed
    THEN Raises(h1, Other("ValueError"))
    ELSE IF prompt /\ ~seen
    THEN Returns(fail(h1, c, MsgPrompt), RetChild(c))
    ELSE IF h.procs[p].closed
    THEN Raises(h1, Other("OSError"))
    ELSE Returns([h1 EXCEPT !.procs[p].sent = Append(@, line)], RetChild(c))

\* Child.stdout
stdout(h, c, output, fate, raw, bad) ==
    IF h.objs[c].failed THEN Returns(h, RetChild(c))
    ELSE LET w == wait(h, c, fate, raw, bad) IN
         IF w.exc.type # "None" THEN w
         ELSE IF output.kind # "None" THEN match(w.h, c, output)
         ELSE Returns(w.h, RetChild(c))

\* reject without the except clause: the timeout of wait is not absorbed
reject_Reraises(h, c, fate, raw, bad) ==
    IF h.objs[c].failed THEN Returns(h, RetChild(c))
    ELSE LET w == wait(Logged(h, "checking that input was rejected..."),
                       c, fate, raw, bad)
         IN IF w.exc.type # "None" THEN w
            ELSE Returns(fail(w.h, c, MsgReject), RetChild(c))

\* reject failing only a process that wrote something before it ended
reject_SilentPasses(h, c, fate, raw, bad) ==
    IF h.objs[c].failed THEN Returns(h, RetChild(c))
    ELSE LET w == wait(Logged(h, "checking that input was rejected..."),
                       c, fate, raw, bad)
         IN IF w.exc.type = "Error" /\ w.exc.context = "TIMEOUT"
            THEN Returns(w.h, RetChild(c))
            ELSE IF w.exc.type # "None" THEN w
            ELSE IF PayOf(w.h, c).output = <<>> THEN Returns(w.h, RetChild(c))
            ELSE Returns(fail(w.h, c, MsgReject), RetChild(c))

\* Child.reject
reject(h, c, fate, raw, bad) ==
    IF h.objs[c].failed THEN Returns(h, RetChild(c))
    ELSE LET w == wait(Logged(h, "checking that input was rejected..."),
                       c, fate, raw, bad)
         IN IF w.exc.type = "Error" /\ w.exc.context = "TIMEOUT"
            THEN Returns(w.h, RetChild(c))
            ELSE IF w.exc.type # "None" THEN w
            ELSE Returns(fail(w.h, c, MsgReject), RetChild(c))

\* Child.exit
exit(h, c, code, fate, raw, bad) ==
    IF h.objs[c].failed THEN Returns(h, RetChild(c))
    ELSE LET w == wait(h, c, fate, raw, bad) IN
         IF w.exc.type # "None" THEN w
         ELSE IF code = "None" THEN Returns(w.h, RetCode(PayOf(w.h, c).exit))
         ELSE LET h1 == Logged(w.h, "checking that program exited with status...")
              IN IF PayOf(h1, c).exit # code
                 THEN \* the message is formatted from self.status.exit
                      Raises(h1, Other("AttributeError"))
                 ELSE Returns(h1, RetChild(c))

\* help with its test turned round: the hint is kept only after a failure
help_OnlyWhenFailed(h, c, message) ==
    IF ~h.objs[c].failed THEN Returns(h, RetChild(c))
    ELSE Returns([h EXCEPT !.pays[h.objs[c].pay].help_message = message],
                 RetChild(c))

\* Child.help
help(h, c, message) ==
    IF h.objs[c].failed THEN Returns(h, RetChild(c))
    ELSE Returns([h EXCEPT !.pays[h.objs[c].pay].help_message = message],
                 RetChild(c))

\* fail(child), the condition the module offers for Child.on
Holds(h, c, condition) ==
    CASE condition = "fail" -> h.objs[c].failed
      [] condition = "true" -> TRUE
      [] OTHER -> FALSE

\* Child.on
on(h, c, condition) ==
    LET new == Len(h.objs) + 1
        h1 == [h EXCEPT !.objs = Append(@, NewChild(h.objs[c].proc, h.objs[c].pay))]
    IN Returns(IF ~Holds(h, c, condition) THEN fail(h1, new, Str("")) ELSE h1,
               RetChild(new))

\* Checks.spawn
spawn(h) ==
    LET new == Len(h.objs) + 1
        h1 == Logged(h, "running...")
    IN Returns([h1 EXCEPT !.procs = Append(@, NewProc),
                          !.pays = Append(@, NewPayload),
                          !.objs = Append(@, NewChild(Len(h.procs) + 1, Len(h.pays) + 1)),
                          !.children = Append(@, new)],
               RetChild(new))


\* tearDown with "if" for "while": only the last child is popped and killed
tearDown_Once(h) ==
    IF h.children = <<>> THEN h
    ELSE kill([h EXCEPT !.children = SubSeq(@, 1, Len(@) - 1)], Last(h.children))

\* Checks.tearDown: while self.children: self.children.pop().kill()
RECURSIVE tearDown(_)
tearDown(h) ==
    IF h.children = <<>> THEN h
    ELSE tearDown(kill([h EXCEPT !.children = SubSeq(@, 1, Len(@) - 1)],
                       Last(h.children)))

\* ------------------------------------------------------------------- state
VARIABLES
    dependency,     \* per test case run so far, the name its decorator was
                    \* given as dependency, 0 if none
    test_results,   \* config.test_results: check name -> stored result
    results,        \* TestResult.results, the ordered result records
    dirs,           \* the directories under config.tempdir; 0 is "_"
    cur,            \* position in config.test_cases of the test case in hand
    pc,             \* where that test case is: idle (not begun), body, over
    result,         \* Checks.result
    rationale,      \* Checks.rationale
    helpers,        \* Checks.helpers
    log,            \* Checks.log
    children,       \* Checks.children: the Child objects spawn appended
    objs,           \* every Child object of the test case
    pays,           \* the Payload objects
    procs,          \* the spawned processes
    outcome,        \* how the test method ended, as unittest saw it
    nops,           \* calls the bodies have made so far
    \* Checks._check_valgrind in progress
    vpc,            \* where it is: off, errors (outer loop), frames (inner)
    msg,            \* the list msg of the error in hand
    reported,       \* the set reported
    nerrors,        \* errors of the report iterated so far
    nframes,        \* stack frames of the error in hand iterated so far
    composed,       \* the messages composed so far, one per error, in order
    \* Child.wait in progress, statement by statement
    waiting,        \* the Child whose wait is running, 0 if none
    wpc,            \* where it is: off, time, alive, read, drain, settle, or
                    \* done (it returned), raised
    now,            \* clock ticks since the wait began
    pipe,           \* what the process wrote and the harness has not read
    written,        \* all the process wrote that was to be read in this wait
    out,            \* the list out, joined
    drained,        \* the part of out that the drain loop appended
    file            \* the text of the File the body reads, if it reads one

\* the variables of the check pipeline and the harness
cvars == <<dependency, test_results, results, dirs, cur, pc, result, rationale,
           helpers, log, children, objs, pays, procs, outcome, nops>>
\* those of _check_valgrind, and those of a wait taken step by step
lvars == <<vpc, msg, reported, nerrors, nframes, composed>>
wvars == <<waiting, wpc, now, pipe, written, out, drained>>
vars == <<cvars, lvars, wvars, file>>

Heap == [objs |-> objs, pays |-> pays, procs |-> procs, log |-> log,
         children |-> children]

NoOutcome == [how |-> "None", type |-> "None"]
NoDir == [exists |-> FALSE, files |-> {}]

\* all but the fixtures of the check set
Boot ==
    /\ dependency = <<>>
    /\ test_results = [n \in Names |-> NONE]
    /\ results = <<>>
    /\ dirs = [n \in 0..NChecks |-> IF n = 0 THEN [exists |-> TRUE, files |-> {}]
                                    ELSE NoDir]
    /\ cur = 1
    /\ pc = "idle"
    /\ result = FAIL
    /\ rationale = NoneMsg
    /\ helpers = "None"
    /\ log = <<>>
    /\ children = <<>>
    /\ objs = <<>>
    /\ pays = <<>>
    /\ procs = <<>>
    /\ outcome = NoOutcome
    /\ nops = 0
    /\ vpc = "off"
    /\ msg = <<>>
    /\ reported = {}
    /\ nerrors = 0
    /\ nframes = 0
    /\ composed = <<>>
    /\ waiting = 0
    /\ wpc = "off"
    /\ now = 0
    /\ pipe = <<>>
    /\ written = <<>>
    /\ out = <<>>
    /\ drained = <<>>

Init == Boot /\ file = <<>>

\* ------------------------------------------------- the decorator's wrapper
\* the gate testing for a stored FAIL only
DependencyFailed_OnlyFail(d) == d # 0 /\ test_results[d] = FAIL

\* the gate letting a check run when its dependency was itself skipped
DependencyFailed_SkipPasses(d) == d # 0 /\ test_results[d] \in {FAIL, NONE}

\* "if dependency and config.test_results.get(dependency) != Checks.PASS"
DependencyFailed(d) == d # 0 /\ test_results[d] # PASS

\* staging from the base fixtures whatever the dependency
Staged_FromBase(d) == [dirs EXCEPT ![cur] = dirs[0]]

\* shutil.copytree(src_dir, dst_dir), src_dir named by the dependency or "_"
Staged(d) == [dirs EXCEPT ![cur] = dirs[d]]

\* The run takes the test cases in the order of config.test_cases, one
\* after the other, each once.
HasNext == cur <= NChecks
Advance == cur' = cur + 1

\* The wrapper of the next test case, its decorator given dependency d.
EnterWith(d) ==
    /\ dependency' = Append(dependency, d)
    /\ log' = <<>>
    /\ children' = <<>>
    /\ objs' = <<>>
    /\ pays' = <<>>
    /\ procs' = <<>>
    /\ helpers' = "None"
    /\ UNCHANGED nops
    /\ IF DependencyFailed(d)
       THEN /\ result' = SKIP
            /\ test_results' = [test_results EXCEPT ![cur] = SKIP]
            /\ rationale' = MsgFrown
            /\ outcome' = [how |-> "success", type |-> "None"]
            /\ pc' = "over"
            /\ UNCHANGED dirs
       ELSE /\ result' = FAIL
            /\ rationale' = NoneMsg
            /\ dirs' = Staged(d)
            /\ outcome' = NoOutcome
            /\ pc' = "body"
            /\ UNCHANGED test_results

\* The test case is constructed (Checks.__init__) and the wrapper runs up to
\* the call of the body, or returns at once when the dependency failed. The
\* dependency is the argument its decorator was given: any name or none.
Enter ==
    /\ pc = "idle"
    /\ HasNext
    /\ \E d \in 0..NChecks : EnterWith(d)
    /\ UNCHANGED <<results, cur, lvars, wvars, file>>

\* The exception the wrapper handles once the body is over: the body's own,
\* or the Error built from the last child when the body returned.
Raised(h, exc) ==
    IF exc.type = "None" /\ h.children # <<>> /\ h.objs[Last(h.children)].failed
    THEN Error(PayOf(h, Last(h.children)).error_message,
               PayOf(h, Last(h.children)).help_message, FAIL)
    ELSE exc

\* The rest of the wrapper, from the end of the body on.
Leave(h, exc) ==
    LET e == Raised(h, exc) IN
    /\ pc' = "over"
    /\ IF e.type = "Error"
       THEN /\ rationale' = e.rationale
            /\ helpers' = e.helpers
            /\ result' = e.result
            /\ test_results' = [test_results EXCEPT ![cur] = e.result]
            /\ outcome' = [how |-> "success", type |-> "None"]
       ELSE IF e.type = "None"
       THEN /\ result' = PASS
            /\ test_results' = [test_results EXCEPT ![cur] = PASS]
            /\ outcome' = [how |-> "success", type |-> "None"]
            /\ UNCHANGED <<rationale, helpers>>
       ELSE \* not an Error: it leaves the wrapper
            /\ outcome' = [how |-> IF e.type = "AssertionError" THEN "failure"
                                   ELSE "error",
                           type |-> e.type]
            /\ UNCHANGED <<result, rationale, helpers, test_results>>

\* One call made by the body, with what follows when it raises.
Call(r) ==
    /\ objs' = r.h.objs
    /\ pays' = r.h.pays
    /\ procs' = r.h.procs
    /\ log' = r.h.log
    /\ children' = r.h.children
    /\ nops' = nops + 1
    /\ IF r.exc.type = "None"
       THEN UNCHANGED <<pc, result, rationale, helpers, test_results, outcome>>
       ELSE Leave(r.h, r.exc)
    /\ UNCHANGED <<dependency, results, dirs, cur, lvars, wvars, file>>

InBody == pc = "body" /\ nops < MaxOps
Objs == 1..Len(objs)


\* What a body passes as expected output: nothing, a pattern, or a File.
NoOutput == [kind |-> "None", s |-> <<>>]
ExpectEOF == [kind |-> "EOF", s |-> <<"EOF">>]
Outputs == {NoOutput, ExpectEOF} \cup [kind : {"pattern", "file"}, s : Expecteds]

\* ------------------------------------------------------------ body's calls
\* One action per method the body may call; XOn(c) is the call on Child c
\* for some arguments and some behaviour of the process.
CallSpawn ==
    /\ InBody
    /\ Len(objs) < MaxObjs
    /\ Call(spawn(Heap))

stdinCalls(c) ==
    {stdin(Heap, c, line, prompt, seen) :
        line \in {"line", "EOF"}, prompt \in BOOLEAN, seen \in BOOLEAN}

\* How a wait on c's process may go: what becomes of the process, what it
\* wrote, and what the drain loop met.
Waits(c) ==
    {w \in [fate : Fates(ProcOf(Heap, c)), raw : RawOutputs,
            bad : {"none", "loop", "drain"}] : w.bad \in Bads(w.fate)}

stdoutCalls(c) ==
    {stdout(Heap, c, output, w.fate, w.raw, w.bad) :
        output \in Outputs, w \in Waits(c)}

rejectCalls(c) == {reject(Heap, c, w.fate, w.raw, w.bad) : w \in Waits(c)}

exitCalls(c) ==
    {exit(Heap, c, code, w.fate, w.raw, w.bad) :
        code \in {"None"} \cup ExitCodes, w \in Waits(c)}

waitCalls(c) == {wait(Heap, c, w.fate, w.raw, w.bad) : w \in Waits(c)}

matchCalls(c) == {match(Heap, c, output) : output \in Outputs \ {NoOutput}}

helpCalls(c) == {help(Heap, c, message) : message \in Hints}

onCalls(c) == {on(Heap, c, condition) : condition \in {"fail", "true", "false"}}

killCalls(c) == {Returns(kill(Heap, c), RetChild(c))}

failCalls(c) ==
    {Returns(fail(Heap, c, message), RetChild(c)) :
        message \in {Str(""), MsgBody}}

StdinOn(c) == \E r \in stdinCalls(c) : Call(r)
StdoutOn(c) == \E r \in stdoutCalls(c) : Call(r)
RejectOn(c) == \E r \in rejectCalls(c) : Call(r)
ExitOn(c) == \E r \in exitCalls(c) : Call(r)
WaitOn(c) == \E r \in waitCalls(c) : Call(r)
MatchOn(c) == \E r \in matchCalls(c) : Call(r)
HelpOn(c) == \E r \in helpCalls(c) : Call(r)
OnOn(c) == \E r \in onCalls(c) : Call(r)
KillOn(c) == \E r \in killCalls(c) : Call(r)
FailOn(c) == \E r \in failCalls(c) : Call(r)

CallStdin == InBody /\ \E c \in Objs : StdinOn(c)
CallStdout == InBody /\ \E c \in Objs : StdoutOn(c)
CallReject == InBody /\ \E c \in Objs : RejectOn(c)
CallExit == InBody /\ \E c \in Objs : ExitOn(c)
CallWait == InBody /\ \E c \in Objs : WaitOn(c)
CallMatch == InBody /\ \E c \in Objs : MatchOn(c)
CallHelp == InBody /\ \E c \in Objs : HelpOn(c)
CallOn == InBody /\ Len(objs) < MaxObjs /\ \E c \in Objs : OnOn(c)
CallKill == InBody /\ \E c \in Objs : KillOn(c)
CallFail == InBody /\ \E c \in Objs : FailOn(c)

\* The body writes a file into its directory (Checks.add and the like).
BodyWrites ==
    /\ InBody
    /\ cur \notin dirs[cur].files
    /\ dirs' = [dirs EXCEPT ![cur].files = @ \cup {cur}]
    /\ nops' = nops + 1
    /\ UNCHANGED <<dependency, test_results, results, cur, pc, result, rationale,
                   helpers, log, children, objs, pays, procs, outcome, lvars,
                   wvars, file>>

\* The body raises by itself: an Error (Checks.require; result SKIP as in
\* the valgrind wrapper), an AssertionError, or any other exception.
BodyRaises ==
    /\ pc = "body"
    /\ \E exc \in {Error(MsgBody, "None", FAIL), Error(MsgBody, "None", SKIP),
                   Other("AssertionError"), Other("Exception")} :
          Leave(Heap, exc)
    /\ UNCHANGED <<dependency, results, dirs, cur, log, children, objs, pays,
                   procs, nops, lvars, wvars, file>>

BodyReturns ==
    /\ pc = "body"
    /\ Leave(Heap, NoExc)
    /\ UNCHANGED <<dependency, results, dirs, cur, log, children, objs, pays,
                   procs, nops, lvars, wvars, file>>

\* ------------------------------------------------------- after the wrapper
\* a record that reports every check the wrapper left quietly as passed
addSuccess_ReportsPass ==
    [name |-> cur, helpers |-> helpers, log |-> log, rationale |-> rationale,
     status |-> PASS]

\* TestResult.addSuccess
addSuccess ==
    [name |-> cur, helpers |-> helpers, log |-> log, rationale |-> rationale,
     status |-> result]

\* the lines TestResult.addError appends to test.log
Trace(type) == <<type, "traceback", "Contact sysadmins@cs50.harvard.edu with the URL of this check!">>

\* TestResult.addError
addError(type) ==
    [name |-> cur, helpers |-> helpers, log |-> log \o Trace(type),
     rationale |-> MsgGeneric, status |-> SKIP]

\* What unittest does once the test method is over: tearDown, whatever the
\* method did, then the report to the TestResult: addSuccess, addError, or,
\* for an AssertionError, addFailure, which TestResult inherits.
Finish ==
    /\ pc = "over"
    /\ LET h == tearDown(Heap) IN
          /\ children' = h.children
          /\ procs' = h.procs
    /\ CASE outcome.how = "success" ->
              /\ results' = Append(results, addSuccess)
              /\ UNCHANGED log
         [] outcome.how = "error" ->
              /\ results' = Append(results, addError(outcome.type))
              /\ log' = log \o Trace(outcome.type)
         [] OTHER -> UNCHANGED <<results, log>>
    /\ Advance
    /\ pc' = "idle"
    /\ UNCHANGED <<dependency, test_results, dirs, result, rationale, helpers,
                   objs, pays, outcome, nops, lvars, wvars, file>>

Next ==
    \/ Enter
    \/ CallSpawn
    \/ CallStdin
    \/ CallStdout
    \/ CallReject
    \/ CallExit
    \/ CallWait
    \/ CallMatch
    \/ CallHelp
    \/ CallOn
    \/ CallKill
    \/ CallFail
    \/ BodyWrites
    \/ BodyRaises
    \/ BodyReturns
    \/ Finish

Spec == Init /\ [][Next]_vars


\* ------------------------------------------------- Checks._check_valgrind
\* The body of a check under @valgrind has returned and the report is read:
\* one action per statement of the two nested loops. What the report holds
\* is an input, drawn as the iterators yield it.
MsgValgrind == Str("valgrind tests failed; rerun with --log for more information.")
MsgNoValgrind == Str("valgrind not installed")

\* Paths are sequences of components. self.dir is config.tempdir joined
\* with the name of the test method.
DirOf(n) == <<"tmp", ToString(n)>>
\* os.path.dirname
dirname(path) == SubSeq(path, 1, Len(path) - 1)

\* The obj of a frame: a program in the check's directory, one in a
\* directory below it, a system library, or <<>> for a frame without obj.
Objects(n) == { <<>>,
                DirOf(n) \o <<"prog">>,
                DirOf(n) \o <<"bin", "prog">>,
                <<"usr", "lib", "libc.so">> }
Frames(n) == [obj : Objects(n), file : {"None", "f.c", "g.c"},
              line : {"None", "7"}]

LeakKinds == {"Leak_DefinitelyLost"}
Errors == [kind : LeakKinds \cup {"InvalidRead"}, what : {"w1", "w2"},
           xwhat : {"x1"}]

\* error.find("xwhat/text" if kind.startswith("Leak_") else "what").text
WhatOf(error) == IF error.kind \in LeakKinds THEN error.xwhat ELSE error.what

\* ": (file: {}, line: {})".format(location[0].text, location[1].text)
Location(frame) ==
    ": (file: " \o frame.file \o ", line: " \o frame.line \o ")"

RECURSIVE Join(_)
\* "".join(msg)
Join(l) == IF l = <<>> THEN "" ELSE Head(l) \o Join(Tail(l))

\* "obj is not None and os.path.dirname(obj.text) == self.dir"
InDir(frame, dir) == frame.obj # <<>> /\ dirname(frame.obj) = dir

\* valgrind.wrapper: "if not which("valgrind"): raise Error(..., SKIP)"
ValgrindMissing ==
    /\ pc = "body" /\ vpc = "off"
    /\ Leave(Heap, Error(MsgNoValgrind, "None", SKIP))
    /\ UNCHANGED <<dependency, results, dirs, cur, log, children, objs, pays,
                   procs, nops, lvars, wvars, file>>

\* lines 752-757
ValgrindBegin ==
    /\ pc = "body" /\ vpc = "off"
    /\ vpc' = "errors"
    /\ log' = Append(log, "checking for valgrind errors... ")
    /\ reported' = {}
    /\ nerrors' = 0
    /\ composed' = <<>>
    /\ UNCHANGED <<dependency, test_results, results, dirs, cur, pc, result,
                   rationale, helpers, children, objs, pays, procs, outcome,
                   nops, msg, nframes, wvars, file>>

\* lines 758-766: the next error of the report
NextError(error) ==
    /\ msg' = <<"\t", WhatOf(error)>>
    /\ nerrors' = nerrors + 1
    /\ nframes' = 0
    /\ vpc' = "frames"
    /\ UNCHANGED <<cvars, reported, composed, wvars, file>>

ValgrindError ==
    /\ vpc = "errors"
    /\ nerrors < MaxErrors
    /\ \E error \in Errors : NextError(error)

\* lines 769-777: the next frame of the error's stack
NextFrame(frame) ==
    /\ nframes' = nframes + 1
    /\ IF InDir(frame, DirOf(cur))
       THEN /\ msg' = IF frame.file # "None" /\ frame.line # "None"
                      THEN Append(msg, Location(frame)) ELSE msg
            /\ vpc' = "composed"
       ELSE UNCHANGED <<msg, vpc>>
    /\ UNCHANGED <<cvars, reported, nerrors, composed, wvars, file>>

ValgrindFrame ==
    /\ vpc = "frames"
    /\ nframes < MaxFrames
    /\ \E frame \in Frames(cur) : NextFrame(frame)

\* the stack has no further frame: the inner loop ends without break
ValgrindStackEnd ==
    /\ vpc = "frames"
    /\ vpc' = "composed"
    /\ UNCHANGED <<cvars, msg, reported, nerrors, nframes, composed, wvars,
                   file>>

\* the report step without the test against reported
ValgrindReport_NoDedupe ==
    /\ vpc = "composed"
    /\ vpc' = "errors"
    /\ msg' = <<Join(msg)>>
    /\ composed' = Append(composed, Join(msg))
    /\ log' = Append(log, Join(msg))
    /\ reported' = reported \cup {Join(msg)}
    /\ UNCHANGED <<dependency, test_results, results, dirs, cur, pc, result,
                   rationale, helpers, children, objs, pays, procs, outcome,
                   nops, nerrors, nframes, wvars, file>>

\* lines 779-782
ValgrindReport ==
    /\ vpc = "composed"
    /\ vpc' = "errors"
    /\ msg' = <<Join(msg)>>
    /\ composed' = Append(composed, Join(msg))
    /\ IF Join(msg) \notin reported
       THEN /\ log' = Append(log, Join(msg))
            /\ reported' = reported \cup {Join(msg)}
       ELSE UNCHANGED <<log, reported>>
    /\ UNCHANGED <<dependency, test_results, results, dirs, cur, pc, result,
                   rationale, helpers, children, objs, pays, procs, outcome,
                   nops, nerrors, nframes, wvars, file>>

\* lines 784-786, the report at its end: the Error, or the return into the
\* wrapper of the check
ValgrindEnd ==
    /\ vpc = "errors"
    /\ vpc' = "off"
    /\ Leave(Heap, IF reported # {} THEN Error(MsgValgrind, "None", FAIL)
                   ELSE NoExc)
    /\ UNCHANGED <<dependency, results, dirs, cur, log, children, objs, pays,
                   procs, nops, msg, reported, nerrors, nframes, composed,
                   wvars, file>>

LeakNext ==
    \/ Enter
    \/ ValgrindMissing
    \/ ValgrindBegin
    \/ ValgrindError
    \/ ValgrindFrame
    \/ ValgrindStackEnd
    \/ ValgrindReport
    \/ ValgrindEnd

LeakSpec == Init /\ [][LeakNext]_vars

\* ------------------------------------------------- stdout against a File
\* The body of a check is self.spawn(cmd).stdout(File(name)): the process
\* writes any text of up to MaxLen characters and exits 0 within the
\* timeout, the File holds any text without carriage returns.
Chars == {"a", "b", "\r", "\n"}
Texts(alphabet) == UNION {[1..n -> alphabet] : n \in 0..MaxLen}

MatchInit == Boot /\ file \in Texts(Chars \ {"\r"})

\* The process of Child c writes raw and exits.
Writes(c, raw) ==
    /\ written' = raw
    /\ procs' = [procs EXCEPT ![objs[c].proc] = ProcAfter(@, "exit0")]
    /\ UNCHANGED <<dependency, test_results, results, dirs, cur, pc, result,
                   rationale, helpers, log, children, objs, pays, outcome, nops,
                   lvars, waiting, wpc, now, pipe, out, drained, file>>

ProcessWrites ==
    /\ pc = "body"
    /\ \A p \in DOMAIN procs : procs[p].alive
    /\ \E c \in Objs, raw \in Texts(Chars) : Writes(c, raw)

\* stdout(File(name)) on the Child whose process has written and exited
StdoutFile ==
    /\ InBody
    /\ \E c \in Objs :
          /\ ~ProcOf(Heap, c).alive
          /\ Call(stdout(Heap, c, [kind |-> "file", s |-> file], "dead",
                         written, "none"))

\* the check has no dependency; its body spawns one process
EnterAlone ==
    /\ pc = "idle"
    /\ HasNext
    /\ EnterWith(0)
    /\ UNCHANGED <<results, cur, lvars, wvars, file>>

SpawnOne == objs = <<>> /\ CallSpawn

MatchNext ==
    \/ EnterAlone
    \/ SpawnOne
    \/ ProcessWrites
    \/ StdoutFile

MatchSpec == MatchInit /\ [][MatchNext]_vars

\* ------------------------------------------------ wait, statement by statement
\* The body of a check is self.spawn(cmd).wait(timeout). The process runs
\* beside the harness: it writes up to MaxLen characters, one at a time, and
\* may exit at any moment; the clock ticks at any moment of the wait.
WaitingProc == objs[waiting].proc

\* The model keeps the first MaxLen characters of a text: no step of wait
\* looks at what it has read so far.
Keep(text) == IF Len(text) <= MaxLen THEN text ELSE SubSeq(text, 1, MaxLen)

\* the process of the Child writes a character
ProcWrites ==
    /\ pc = "body"
    /\ Len(written) < MaxLen
    /\ \E c \in Objs, ch \in Chars :
          /\ ProcOf(Heap, c).alive
          /\ pipe' = Append(pipe, ch)
          /\ written' = Append(written, ch)
    /\ UNCHANGED <<cvars, lvars, waiting, wpc, now, out, drained, file>>

\* the process exits, or dies of a signal
ProcExits ==
    /\ pc = "body"
    /\ \E c \in Objs, fate \in {"exit0", "exit1", "segv"} :
          /\ ProcOf(Heap, c).alive
          /\ procs' = [procs EXCEPT ![objs[c].proc] = ProcAfter(@, fate)]
    /\ UNCHANGED <<dependency, test_results, results, dirs, cur, pc, result,
                   rationale, helpers, log, children, objs, pays, outcome, nops,
                   lvars, wvars, file>>

Tick ==
    /\ wpc \in {"time", "alive", "read", "drain", "settle", "expect"}
    /\ now <= Timeout
    /\ now' = now + 1
    /\ UNCHANGED <<cvars, lvars, waiting, wpc, pipe, written, out, drained, file>>

\* out = []; end = time.time() + timeout
WaitBegin ==
    /\ InBody
    /\ wpc = "off"
    /\ \E c \in Objs :
          /\ ~ProcOf(Heap, c).closed
          /\ waiting' = c
    /\ wpc' = "time"
    /\ now' = 0
    /\ out' = <<>>
    /\ drained' = <<>>
    /\ nops' = nops + 1
    /\ UNCHANGED <<dependency, test_results, results, dirs, cur, pc, result,
                   rationale, helpers, log, children, objs, pays, procs,
                   outcome, lvars, pipe, written, file>>

\* the loop without its deadline
WaitTime_NoDeadline ==
    /\ wpc = "time"
    /\ wpc' = "alive"
    /\ UNCHANGED <<cvars, lvars, waiting, now, pipe, written, out, drained, file>>

\* while time.time() <= end: ... else: raise the timeout Error
WaitTime ==
    /\ wpc = "time"
    /\ IF now <= Timeout
       THEN /\ wpc' = "alive"
            /\ UNCHANGED cvars
       ELSE /\ wpc' = "raised"
            /\ Leave(Heap, TimedOut)
            /\ UNCHANGED <<dependency, results, dirs, cur, log, children, objs,
                           pays, procs, nops>>
    /\ UNCHANGED <<lvars, waiting, now, pipe, written, out, drained, file>>

\* if not self.child.isalive(): break
WaitAlive ==
    /\ wpc = "alive"
    /\ wpc' = IF procs[WaitingProc].alive THEN "read" ELSE "drain"
    /\ UNCHANGED <<cvars, lvars, waiting, now, pipe, written, out, drained, file>>

\* read_nonblocking(size=1024, timeout=0) in the loop: some of what the pipe
\* holds; EOF from a dead process with an empty pipe; TIMEOUT otherwise
WaitRead ==
    /\ wpc = "read"
    /\ IF pipe # <<>>
       THEN \E k \in 1..Len(pipe) :
               /\ out' = Keep(out \o SubSeq(pipe, 1, k))
               /\ pipe' = SubSeq(pipe, k + 1, Len(pipe))
               /\ wpc' = "time"
       ELSE /\ wpc' = IF procs[WaitingProc].alive THEN "time" ELSE "drain"
            /\ UNCHANGED <<out, pipe>>
    /\ UNCHANGED <<cvars, lvars, waiting, now, written, drained, file>>

\* the loop that ends at once, leaving what is in the pipe unread
WaitDrain_Skipped ==
    /\ wpc = "drain"
    /\ wpc' = "settle"
    /\ UNCHANGED <<cvars, lvars, waiting, now, pipe, written, out, drained, file>>

\* while True: read_nonblocking(size=1024, timeout=0), until TIMEOUT or EOF
WaitDrain ==
    /\ wpc = "drain"
    /\ IF pipe # <<>>
       THEN \E k \in 1..Len(pipe) :
               /\ out' = Keep(out \o SubSeq(pipe, 1, k))
               /\ drained' = Keep(drained \o SubSeq(pipe, 1, k))
               /\ pipe' = SubSeq(pipe, k + 1, Len(pipe))
               /\ wpc' = "drain"
       ELSE /\ wpc' = "settle"
            /\ UNCHANGED <<out, drained, pipe>>
    /\ UNCHANGED <<cvars, lvars, waiting, now, written, file>>

\* what wait does with the text it has read
Settled(h, c, text) ==
    LET p == h.objs[c].proc
        q == h.objs[c].pay
        h1 == [h EXCEPT !.pays[q].output = Normalize(text)]
        h2 == kill(h1, c)
    IN IF h2.procs[p].signalstatus = "SIGSEGV"
       THEN fail(h2, c, MsgSegv)
       ELSE [h2 EXCEPT !.pays[q].exit = h2.procs[p].exitstatus]

WaitSettle ==
    /\ wpc = "settle"
    /\ LET h == Settled(Heap, waiting, out) IN
          /\ objs' = h.objs
          /\ pays' = h.pays
          /\ procs' = h.procs
    /\ wpc' = "done"
    /\ UNCHANGED <<dependency, test_results, results, dirs, cur, pc, result,
                   rationale, helpers, log, children, outcome, nops, lvars,
                   waiting, now, pipe, written, out, drained, file>>

WaitNext ==
    \/ EnterAlone
    \/ SpawnOne
    \/ ProcWrites
    \/ ProcExits
    \/ Tick
    \/ WaitBegin
    \/ WaitTime
    \/ WaitAlive
    \/ WaitRead
    \/ WaitDrain
    \/ WaitSettle

WaitSpec == Init /\ [][WaitNext]_vars

\* ------------------------------------------------ the operations that wait
\* The checks of a run, one process each, whose bodies call stdin(line) and
\* wait(timeout) and return. The process writes whenever the pipe has room,
\* for ever if it does not exit. The harness goes on when it can, and the
\* clock goes on.
Running == {"time", "alive", "read", "drain", "settle", "expect"}

EnterFresh ==
    /\ pc = "idle"
    /\ HasNext
    /\ EnterWith(0)
    /\ waiting' = 0
    /\ wpc' = "off"
    /\ now' = 0
    /\ pipe' = <<>>
    /\ written' = <<>>
    /\ out' = <<>>
    /\ drained' = <<>>
    /\ UNCHANGED <<results, cur, lvars, file>>

ProcBabbles ==
    /\ pc = "body"
    /\ Len(pipe) < MaxLen
    /\ \E c \in Objs :
          /\ ProcOf(Heap, c).alive
          /\ pipe' = Append(pipe, "a")
          /\ written' = Keep(Append(written, "a"))
    /\ UNCHANGED <<cvars, lvars, waiting, wpc, now, out, drained, file>>

\* stdin(line, prompt=True, timeout) up to self.child.expect(".+", timeout)
StdinBegin ==
    /\ InBody
    /\ wpc \in {"off", "done"}
    /\ \E c \in Objs :
          /\ ~objs[c].failed
          /\ ~ProcOf(Heap, c).closed
          /\ waiting' = c
    /\ wpc' = "expect"
    /\ now' = 0
    /\ log' = Append(log, "sending input...")
    /\ nops' = nops + 1
    /\ UNCHANGED <<dependency, test_results, results, dirs, cur, pc, result,
                   rationale, helpers, children, objs, pays, procs, outcome,
                   lvars, pipe, written, out, drained, file>>

\* expect returns on any output, and the line is sent; EOF from a dead
\* process with an empty pipe, or TIMEOUT once the timeout is over, fails
StdinExpect ==
    /\ wpc = "expect"
    /\ IF pipe # <<>>
       THEN /\ \E k \in 1..Len(pipe) : pipe' = SubSeq(pipe, k + 1, Len(pipe))
            /\ procs' = [procs EXCEPT ![WaitingProc].sent = Append(@, "line")]
            /\ UNCHANGED <<objs, pays>>
       ELSE /\ ~procs[WaitingProc].alive \/ now > Timeout
            /\ LET h == fail(Heap, waiting, MsgPrompt) IN
                  /\ objs' = h.objs
                  /\ pays' = h.pays
            /\ UNCHANGED <<procs, pipe>>
    /\ wpc' = "off"
    /\ UNCHANGED <<dependency, test_results, results, dirs, cur, pc, result,
                   rationale, helpers, log, children, outcome, nops, lvars,
                   waiting, now, written, out, drained, file>>

\* the body returns when no call is under way
LiveReturns == wpc \notin Running /\ BodyReturns

LiveNext ==
    \/ EnterFresh
    \/ SpawnOne
    \/ ProcBabbles
    \/ ProcExits
    \/ Tick
    \/ StdinBegin
    \/ StdinExpect
    \/ WaitBegin
    \/ WaitTime
    \/ WaitAlive
    \/ WaitRead
    \/ WaitDrain
    \/ WaitSettle
    \/ LiveReturns
    \/ Finish

\* The harness is one thread that is not held up: each of its steps is taken
\* once it can be; time passes. Nothing is asked of the process.
LiveSpec ==
    /\ Init
    /\ [][LiveNext]_vars
    /\ WF_vars(EnterFresh)
    /\ WF_vars(Tick)
    /\ WF_vars(StdinExpect)
    /\ WF_vars(WaitTime)
    /\ WF_vars(WaitAlive)
    /\ WF_vars(WaitRead)
    /\ WF_vars(WaitDrain)
    /\ WF_vars(WaitSettle)
    /\ WF_vars(LiveReturns)
    /\ WF_vars(Finish)

\* ------------------------------------------------------------------ claims
Started(n) == n < cur \/ (n = cur /\ pc # "idle")
\* The dependency of n had no PASS stored when n was gated: an entry is
\* written once, by the run of its own check, so a later or own name had
\* no entry then and an earlier one had the entry it has now.
Unmet(n) ==
    /\ dependency[n] # 0
    /\ (dependency[n] >= n \/ test_results[dependency[n]] # PASS)
RecordsOf(n) == {i \in DOMAIN results : results[i].name = n}
NowHeap == [objs |-> objs', pays |-> pays', procs |-> procs', log |-> log',
            children |-> children']
FailedChildren == {i \in DOMAIN children : objs[children[i]].failed}
LastChildFailed == children # <<>> /\ objs[Last(children)].failed
RejectLine == "checking that input was rejected..."

\* C1: a check whose dependency has a stored result other than PASS (FAIL,
\* SKIP or no entry) gets SKIP stored and recorded, its body is never
\* entered (no call, no child, empty log) and no directory is staged for it.
C1_DependencyUnmetSkips ==
    \A n \in Names :
       (Started(n) /\ Unmet(n)) =>
          /\ test_results[n] = SKIP
          /\ ~dirs[n].exists
          /\ (n = cur => /\ pc = "over"
                         /\ result = SKIP
                         /\ objs = <<>> /\ log = <<>>)
          /\ (n < cur => /\ RecordsOf(n) # {}
                         /\ \A i \in RecordsOf(n) :
                               /\ results[i].status = SKIP
                               /\ results[i].rationale = MsgFrown
                               /\ results[i].log = <<>>)

C1_Witness ==
    \E n \in Names :
       /\ n < cur
       /\ dependency[n] # 0 /\ dependency[n] < n
       /\ test_results[dependency[n]] = FAIL
       /\ \E i \in RecordsOf(n) : results[i].status = SKIP

\* C2: after a body raised an exception that is not the structured Error,
\* the check has a result record with status SKIP, the generic rationale and
\* the trace at the end of its log, and every finished check has its record.
C2_UnexpectedErrorRecordedSkip ==
    /\ (pc = "idle" => Len(results) = cur - 1)
    /\ (pc = "idle" /\ cur > 1 /\ outcome.how # "success") =>
          /\ Last(results).name = cur - 1
          /\ Last(results).status = SKIP
          /\ Last(results).rationale = MsgGeneric
          /\ Len(Last(results).log) >= 3
          /\ SubSeq(Last(results).log, Len(Last(results).log) - 2,
                    Len(Last(results).log)) = Trace(outcome.type)

\* C3: a check one of whose spawned children has its failed latch set when
\* the wrapper is done is never PASS.
C3_ChildFailureFailsCheck ==
    (pc = "over" /\ FailedChildren # {}) => result # PASS

\* C4: between two checks, whichever way the last one ended, every process
\* it spawned is closed and dead and its list of children is empty.
C4_ChildrenKilledBetweenChecks ==
    (pc = "idle") =>
       /\ children = <<>>
       /\ \A p \in DOMAIN procs : procs[p].closed /\ ~procs[p].alive

C4_Witness ==
    /\ pc = "idle"
    /\ Len(procs) = 2
    /\ outcome.how = "error"

\* C5: the failed flag of a Child object, once true, is true after every
\* step in which the object lives on.
C5_FailedLatchOneWay ==
    [][\A c \in DOMAIN objs :
          (objs[c].failed /\ c \in DOMAIN objs') => objs'[c].failed]_vars

\* a child that failed for want of a prompt and whose process was closed by
\* a later call of the same body
C5_Witness ==
    /\ pc = "body"
    /\ \E c \in DOMAIN objs :
          /\ objs[c].failed
          /\ PayOf(Heap, c).error_message = MsgPrompt
          /\ ProcOf(Heap, c).closed

\* C6: a call of stdin, stdout, reject, exit, wait, match or help on a Child
\* whose failed latch is set returns that Child and changes neither the
\* payloads, the log, the processes nor the course of the body.
C6_FailedChildCallsAreNoOps ==
    [][\A c \in Objs :
       \A r \in stdinCalls(c) \cup stdoutCalls(c) \cup rejectCalls(c)
                \cup exitCalls(c) \cup waitCalls(c) \cup matchCalls(c)
                \cup helpCalls(c) :
          (InBody /\ objs[c].failed /\ Call(r))
          => /\ r.ret = RetChild(c)
             /\ UNCHANGED <<objs, pays, procs, log, children, pc>>]_vars

C8_HelpAttachesOnlyAfterFailure ==
    [][\A c \in Objs, message \in Hints :
          (InBody /\ Call(help(Heap, c, message)))
          => /\ objs[c].failed => PayOf(NowHeap, c).help_message = message
             /\ ~objs[c].failed => pays' = pays]_vars

\* C8 as amended: help does nothing on a Child whose latch is set and
\* stores the hint in the payload otherwise; the helpers of a check that
\* fails through its last child are that payload's hint.
C8_HelpIsLatched ==
    [][/\ \A c \in Objs, message \in Hints :
             (InBody /\ Call(help(Heap, c, message)))
             => /\ objs[c].failed => UNCHANGED <<objs, pays, procs, log>>
                /\ ~objs[c].failed => PayOf(NowHeap, c).help_message = message
       /\ (BodyReturns /\ LastChildFailed)
             => helpers' = PayOf(Heap, Last(children)).help_message]_vars

C8_Witness ==
    /\ pc = "over"
    /\ result = FAIL
    /\ helpers = "hint"

\* C9 as claimed: reject latches a failure whenever the process wrote
\* output before the deadline, alive at the deadline or not.
C9_RejectFailsOnAnyOutput ==
    [][\A c \in Objs, raw \in RawOutputs \ {<<>>} :
       \A fate \in Fates(ProcOf(Heap, c)) :
          (/\ InBody
           /\ ~objs[c].failed
           /\ ~ProcOf(Heap, c).closed
           /\ Call(reject(Heap, c, fate, raw, "none")))
          => objs'[c].failed]_vars

\* C9 as amended: reject latches a failure when wait returns before the
\* deadline (the process ended or closed its output), with or without
\* output, the message being the reject message unless a message was
\* recorded before; a process alive at the deadline latches nothing, output
\* or not.
C9_RejectFailsOnReturn ==
    [][\A c \in Objs, raw \in RawOutputs :
       \A fate \in Fates(ProcOf(Heap, c)) :
          (/\ InBody
           /\ ~objs[c].failed
           /\ ~ProcOf(Heap, c).closed
           /\ Call(reject(Heap, c, fate, raw, "none")))
          => IF fate = "alive"
             THEN ~objs'[c].failed /\ pc' = "body" /\ pays' = pays
             ELSE /\ objs'[c].failed
                  /\ pc' = "body"
                  /\ PayOf(NowHeap, c).output = Normalize(raw)
                  /\ PayOf(NowHeap, c).error_message =
                        IF Truthy(PayOf(Heap, c).error_message)
                        THEN PayOf(Heap, c).error_message
                        ELSE IF ProcOf(NowHeap, c).signalstatus = "SIGSEGV"
                        THEN MsgSegv ELSE MsgReject]_vars

\* reject failed a process that ended after writing output
C9_Witness ==
    /\ pc = "body"
    /\ \E c \in DOMAIN objs :
          /\ objs[c].failed
          /\ PayOf(Heap, c).error_message = MsgReject
          /\ PayOf(Heap, c).output # <<>>

\* C10: reject on a process that stays alive and writes nothing until the
\* deadline returns the Child with the latch unset, raises nothing, leaves
\* process and payload alone, and a later stdin on the Child is sent.
C10_RejectSucceedsOnSilence ==
    [][\A c \in Objs :
          LET r == reject(Heap, c, "alive", <<>>, "none") IN
          (/\ InBody
           /\ ~objs[c].failed
           /\ ProcOf(Heap, c).alive /\ ~ProcOf(Heap, c).closed
           /\ Call(r))
          => /\ ~objs'[c].failed
             /\ r.ret = RetChild(c)
             /\ pc' = "body" /\ outcome' = outcome
             /\ procs' = procs /\ pays' = pays
             /\ log' = Append(log, RejectLine)
             /\ Last(ProcOf(stdin(NowHeap, c, "line", FALSE, TRUE).h, c).sent)
                   = "line"]_vars

C10_Witness ==
    /\ pc = "body"
    /\ Len(objs) = 1
    /\ ~objs[1].failed
    /\ procs[1].alive /\ ~procs[1].closed
    /\ log # <<>> /\ Last(log) = RejectLine

\* The failure exit(code) is to latch: "expected exit code {}, not {}".
ExitCodeMsg(code, actual) ==
    Str("expected exit code " \o code \o ", not " \o actual)

\* What the wrapper stores when the body returns right after the step.
ResultIfReturned == Raised(NowHeap, NoExc)

\* C11: exit(code) on a process that ended with another exit code latches
\* a failure on the Child whose message names both codes, raises nothing,
\* and the check is FAIL with that message when the body returns; exit()
\* without a code returns the exit code of the process.
C11_ExitMismatchFailsCheck ==
    [][\A c \in Objs : \A code \in {"None"} \cup ExitCodes, w \in Waits(c) :
          LET r == exit(Heap, c, code, w.fate, w.raw, w.bad)
              actual == ProcAfter(ProcOf(Heap, c), w.fate).exitstatus
          IN
          (/\ InBody
           /\ ~objs[c].failed
           /\ w.fate \in {"exit0", "exit1"} /\ w.bad = "none"
           /\ actual # code
           /\ Call(r))
          => IF code = "None"
             THEN r.ret = RetCode(actual) /\ ~objs'[c].failed /\ pc' = "body"
             ELSE /\ objs'[c].failed
                  /\ PayOf(NowHeap, c).error_message = ExitCodeMsg(code, actual)
                  /\ pc' = "body"
                  /\ (c = Last(children) =>
                         /\ ResultIfReturned.type = "Error"
                         /\ ResultIfReturned.result = FAIL
                         /\ ResultIfReturned.rationale
                               = ExitCodeMsg(code, actual))]_vars

\* C12: stdout, exit (with or without a code) or reject on a process that
\* ends by SIGSEGV within the wait latches the segmentation-fault failure on
\* the Child and raises nothing, so that the check is FAIL with that
\* rationale when the body returns.
C12_SegfaultReportedAsCrash ==
    [][\A c \in Objs :
       \A r \in {stdout(Heap, c, output, "segv", raw, "none") :
                    output \in Outputs, raw \in RawOutputs}
                \cup {exit(Heap, c, code, "segv", raw, "none") :
                         code \in {"None"} \cup ExitCodes, raw \in RawOutputs}
                \cup {reject(Heap, c, "segv", raw, "none") : raw \in RawOutputs} :
          (/\ InBody
           /\ ~objs[c].failed
           /\ ProcOf(Heap, c).alive
           /\ ~Truthy(PayOf(Heap, c).error_message)
           /\ Call(r))
          => /\ r.exc = NoExc
             /\ pc' = "body"
             /\ objs'[c].failed
             /\ PayOf(NowHeap, c).error_message = MsgSegv
             /\ (c = Last(children) =>
                    /\ ResultIfReturned.type = "Error"
                    /\ ResultIfReturned.result = FAIL
                    /\ ResultIfReturned.rationale = MsgSegv)]_vars

\* A Child on which stdout(expected) has just succeeded, its process having
\* written output that expected matches and exited 0 within the timeout.
StdoutPassed(c, expected) ==
    /\ ~objs[c].failed
    /\ ProcOf(Heap, c).closed
    /\ ProcOf(Heap, c).exitstatus = "0"
    /\ PayOf(Heap, c).exit = "0"
    /\ PayOf(Heap, c).output # <<>>
    /\ IsPrefix(expected, PayOf(Heap, c).output)
    /\ log # <<>> /\ Last(log) = "checking for output..."

\* C13: for a process that writes its greeting and exits 0 within the
\* timeout, exit(0) after a successful stdout(greeting) raises nothing and
\* leaves the latch unset, so that the check is PASS when the body returns;
\* and stdout(other) latches Mismatch(other, greeting).
C13_StdoutThenExitPasses ==
    [][\A c \in Objs :
          /\ \A r \in exitCalls(c) :
                (/\ InBody
                 /\ \E e \in Expecteds : StdoutPassed(c, e)
                 /\ r = exit(Heap, c, "0", "dead", <<>>, "none")
                 /\ Call(r))
                => /\ r.exc = NoExc
                   /\ ~objs'[c].failed
                   /\ pc' = "body"
                   /\ (c = Last(children) => ResultIfReturned = NoExc)
          /\ \A e \in Expecteds, raw \in RawOutputs :
                LET r == stdout(Heap, c, [kind |-> "pattern", s |-> e],
                                "exit0", raw, "none") IN
                (/\ InBody
                 /\ ~objs[c].failed
                 /\ ProcOf(Heap, c).alive
                 /\ ~Truthy(PayOf(Heap, c).error_message)
                 /\ ~IsPrefix(e, Normalize(raw))
                 /\ Call(r))
                => /\ objs'[c].failed
                   /\ PayOf(NowHeap, c).error_message
                         = Mismatch(e, Normalize(raw))]_vars

\* The calls on c that wait for its process and find it alive at the deadline.
TimedOutCalls(c) ==
    {wait(Heap, c, "alive", raw, "none") : raw \in RawOutputs}
    \cup IF objs[c].failed THEN {}
         ELSE {stdout(Heap, c, output, "alive", raw, "none") :
                  output \in Outputs, raw \in RawOutputs}
              \cup {exit(Heap, c, code, "alive", raw, "none") :
                       code \in {"None"} \cup ExitCodes, raw \in RawOutputs}

\* C14: a stdout, exit or wait whose deadline passes with the process alive
\* raises the timed-out Error, which ends this check only: FAIL is stored
\* for it with the timed-out rationale, its record says so, the results and
\* directories of the other checks are untouched and the run moves on to
\* the next check.
C14_TimeoutFailsOnlyItsCheck ==
    [][/\ \A c \in Objs : \A r \in TimedOutCalls(c) :
             (/\ InBody
              /\ ProcOf(Heap, c).alive
              /\ Call(r))
             => /\ r.exc = TimedOut
                /\ pc' = "over"
                /\ outcome'.how = "success"
                /\ result' = FAIL
                /\ rationale' = MsgTimeout
                /\ test_results' = [test_results EXCEPT ![cur] = FAIL]
                /\ UNCHANGED <<results, dirs, cur>>
       /\ (pc = "over" /\ rationale = MsgTimeout /\ pc' = "idle")
             => /\ Len(results') = Len(results) + 1
                /\ SubSeq(results', 1, Len(results)) = results
                /\ Last(results').name = cur
                /\ Last(results').status = FAIL
                /\ Last(results').rationale = MsgTimeout
                /\ cur' = cur + 1
                /\ UNCHANGED <<test_results, dirs>>]_vars

\* a check that timed out was recorded FAIL and a later check passed
C14_Witness ==
    \E i, j \in DOMAIN results :
       /\ i < j
       /\ results[i].rationale = MsgTimeout
       /\ results[i].status = FAIL
       /\ results[j].status = PASS

\* The shared base fixtures, as the run found them.
BaseDir == [exists |-> TRUE, files |-> {}]

\* C15: the wrapper of a check that runs creates the check's own directory
\* as a copy of the directory its dependency left behind, or of the base
\* fixtures when it has none; whatever a check does changes no directory
\* but its own, so the base fixtures stay as they were and a check without
\* dependency starts from an unmodified copy of them whatever the checks
\* before it did.
C15_StagingDirectoriesIsolated ==
    [][/\ \A m \in 0..NChecks : m # cur => dirs'[m] = dirs[m]
       /\ dirs'[0] = BaseDir
       /\ (pc = "idle" /\ pc' = "body") =>
             LET d == Last(dependency') IN
             /\ ~dirs[cur].exists
             /\ dirs[d].exists
             /\ d # 0 => (d < cur /\ test_results[d] = PASS)
             /\ dirs'[cur] = dirs[d]
             /\ d = 0 => dirs'[cur] = BaseDir]_vars

\* the second check, without dependency, starts from the base fixtures after
\* the first wrote into its directory and failed
C15_Witness ==
    /\ cur = 2 /\ pc = "body"
    /\ dependency[2] = 0
    /\ dirs[1].files # {}
    /\ test_results[1] = FAIL
    /\ dirs[2] = BaseDir

Range(f) == {f[i] : i \in DOMAIN f}
\* The lines _check_valgrind has appended to the log after its heading.
LeakLog == IF log = <<>> THEN <<>> ELSE Tail(log)
\* Where message m is composed first.
FirstAt(m) == CHOOSE i \in DOMAIN composed :
                 composed[i] = m /\ \A j \in 1..(i - 1) : composed[j] # m

\* C16: the messages _check_valgrind has logged are the distinct composed
\* messages of the errors read so far, each once, in the order in which each
\* was composed first; and once the report is at its end the check is FAIL
\* with the valgrind rationale if the report held an error, PASS if not.
C16_LeakMessagesLoggedOnce ==
    /\ Range(LeakLog) = Range(composed)
    /\ \A i, j \in DOMAIN LeakLog :
          i < j => /\ LeakLog[i] # LeakLog[j]
                   /\ FirstAt(LeakLog[i]) < FirstAt(LeakLog[j])
    /\ (pc = "over" /\ log # <<>>) =>
          IF composed # <<>>
          THEN result = FAIL /\ rationale = MsgValgrind
                  /\ test_results[cur] = FAIL
          ELSE result = PASS /\ rationale # MsgValgrind

\* a report of three errors, the third composed as the first: two lines
C16_Witness ==
    /\ pc = "over"
    /\ result = FAIL
    /\ Len(composed) = 3
    /\ composed[1] = composed[3]
    /\ composed[1] # composed[2]
    /\ LeakLog = <<composed[1], composed[2]>>

\* The object of the frame lies in the directory, at whatever depth.
Inside(frame, dir) == frame.obj # <<>> /\ IsPrefix(dir, dirname(frame.obj))

\* C17: reading the frames of a stack in order, a frame whose object lies
\* outside the check's directory leaves the message alone and the scan goes
\* on; the first frame whose object lies inside it ends the scan, and adds
\* its location to the message if and only if it carries file and line.
C17_SuffixFromFirstFrameInside ==
    [][\A frame \in Frames(cur) :
          (vpc = "frames" /\ nframes < MaxFrames /\ NextFrame(frame)) =>
             IF Inside(frame, DirOf(cur))
             THEN /\ vpc' = "composed"
                  /\ msg' = IF frame.file # "None" /\ frame.line # "None"
                            THEN Append(msg, Location(frame)) ELSE msg
             ELSE /\ vpc' = "frames"
                  /\ msg' = msg]_vars

\* Where text has a carriage return right before a newline.
CRsBeforeLF(text) ==
    {i \in 1..(Len(text) - 1) : text[i] = "\r" /\ text[i + 1] = "\n"}
\* text without the characters at the positions in drop.
Without(text, drop) ==
    LET keep == DOMAIN text \ drop
        nth(k) == CHOOSE i \in keep : Cardinality({j \in keep : j < i}) = k - 1
    IN [k \in 1..Cardinality(keep) |-> text[nth(k)]]
\* The newlines text begins with.
LeadingLFs(text) ==
    {i \in DOMAIN text : \A j \in 1..i : text[j] = "\n"}
\* text with each "\r\n" made "\n", then without its leading newlines.
CRLFNormalized(text) ==
    LET unix == Without(text, CRsBeforeLF(text))
    IN Without(unix, LeadingLFs(unix))

\* C18: once stdout against a File is over, on a process that wrote its
\* text and exited 0, the buffer is that text with each "\r\n" made "\n" and
\* the leading newlines stripped, and the Child has failed unless the File's
\* text equals the whole buffer; so "a\r\nb" passes against "a\nb".
C18_LiteralMatchNormalized ==
    \A c \in DOMAIN objs :
       ProcOf(Heap, c).closed =>
          /\ PayOf(Heap, c).output = CRLFNormalized(written)
          /\ objs[c].failed <=> file # CRLFNormalized(written)
          /\ (written = <<"a", "\r", "\n", "b">> /\ file = <<"a", "\n", "b">>)
                => ~objs[c].failed

\* stdout against a File holding "a\nb" has passed on a process that wrote
\* "a\r\nb"
C18_Witness ==
    /\ pc = "body"
    /\ written = <<"a", "\r", "\n", "b">>
    /\ file = <<"a", "\n", "b">>
    /\ \E c \in DOMAIN objs :
          /\ ~objs[c].failed
          /\ ProcOf(Heap, c).closed
          /\ Last(log) = "checking for output..."

\* C19: stdin(line, prompt=True) on a Child that has not failed, when the
\* process shows nothing within the timeout or is past its end of output,
\* raises nothing, latches "expected prompt for input, found none" and
\* sends nothing; and whenever a call of stdin sends, a prompt was seen or
\* prompt was false, and the line (or EOF) was sent once.
C19_NoPromptFailsAndSendsNothing ==
    [][\A c \in Objs : \A line \in {"line", "EOF"} :
          /\ LET r == stdin(Heap, c, line, TRUE, FALSE) IN
             (InBody /\ ~objs[c].failed /\ Call(r))
                => /\ r.exc = NoExc
                   /\ objs'[c].failed
                   /\ PayOf(NowHeap, c).error_message = MsgPrompt
                   /\ ProcOf(NowHeap, c).sent = ProcOf(Heap, c).sent
          /\ \A prompt \in BOOLEAN, seen \in BOOLEAN :
                (/\ InBody
                 /\ Call(stdin(Heap, c, line, prompt, seen))
                 /\ ProcOf(NowHeap, c).sent # ProcOf(Heap, c).sent)
                => /\ seen \/ ~prompt
                   /\ ProcOf(NowHeap, c).sent
                         = Append(ProcOf(Heap, c).sent, line)]_vars

\* C20: whatever the order of the process's writes and exit and of the steps
\* of wait, once wait has returned the buffer is all the process wrote, in
\* order, normalized, and nothing is left unread in the pipe.
C20_WaitLosesNoOutput ==
    wpc = "done" =>
       /\ PayOf(Heap, waiting).output = Normalize(written)
       /\ out = written
       /\ pipe = <<>>

\* wait has returned a buffer whose end the drain loop read: the process
\* wrote it and exited after the last read of the polling loop
C20_Witness ==
    /\ wpc = "done"
    /\ out = written
    /\ drained # <<>>
    /\ Len(drained) < Len(out)
    /\ PayOf(Heap, waiting).output = Normalize(written)
    /\ PayOf(Heap, waiting).output # <<>>

\* C21: with a harness that is not held up and a clock that goes on, a call
\* of stdin or wait that has begun is eventually over (returned, failure
\* latched, or timeout raised), whatever the process does, and a check
\* whose body has begun eventually has its result record.
C21_WaitOperationsComplete ==
    /\ (wpc \in Running) ~> (wpc \notin Running)
    /\ \A n \in Names :
          (pc = "body" /\ cur = n)
             ~> (\E i \in DOMAIN results : results[i].name = n)

\* wait has raised its timeout on a process that is alive and has filled
\* the pipe again since the last read
C21_Witness ==
    /\ wpc = "raised"
    /\ pc = "over"
    /\ procs[WaitingProc].alive
    /\ Len(pipe) = MaxLen
    /\ Len(out) = MaxLen
    /\ now > Timeout
    /\ test_results[cur] = FAIL
    /\ rationale = MsgTimeout

\* C22: match of a pattern on a Child that has not failed latches a failure
\* unless the pattern matches at the start of the buffer; match of EOF
\* raises nothing, and with output in the buffer latches
\* Mismatch(EOF, that output).
C22_MatchPrefixAndEOF ==
    [][\A c \in Objs :
          /\ \A e \in Expecteds :
                (/\ InBody
                 /\ ~objs[c].failed
                 /\ Call(match(Heap, c, [kind |-> "pattern", s |-> e])))
                => (objs'[c].failed <=> ~IsPrefix(e, PayOf(Heap, c).output))
          /\ LET r == match(Heap, c, ExpectEOF) IN
             (InBody /\ ~objs[c].failed /\ Call(r))
                => /\ r.exc = NoExc
                   /\ PayOf(Heap, c).output # <<>>
                         => /\ objs'[c].failed
                            /\ PayOf(NowHeap, c).error_message
                                  = Mismatch(ExpectEOF.s, PayOf(Heap, c).output)]_vars

\* the dependency the decorator of check n was given, 0 for none
DepOf(n) == IF n <= Len(dependency) THEN dependency[n] ELSE 0

RECURSIVE Upstream(_, _)
Upstream(S, k) ==
    IF k = 0 THEN S
    ELSE Upstream(S \cup ({DepOf(x) : x \in S} \ {0}), k - 1)

\* the checks n depends on, directly or through other checks
Chain(n) == Upstream({DepOf(n)} \ {0}, NChecks)

\* C23: once two checks are over, the one that depends on the other, directly
\* or through a chain, is recorded SKIP with the frown rationale, an empty
\* log and no directory if the other has no PASS stored (FAIL, SKIP, or no
\* entry after an unexpected error); and a check without dependency, or
\* whose dependency is an earlier check with PASS stored, had its directory
\* staged and its body entered, whatever became of the other checks.
C23_SkipPropagatesAlongChains ==
    \A n \in Names :
       n < cur =>
          /\ \A m \in Chain(n) :
                (m < cur /\ test_results[m] # PASS)
                   => /\ test_results[n] = SKIP
                      /\ ~dirs[n].exists
                      /\ RecordsOf(n) # {}
                      /\ \A i \in RecordsOf(n) :
                            /\ results[i].status = SKIP
                            /\ results[i].rationale = MsgFrown
                            /\ results[i].log = <<>>
          /\ (DepOf(n) = 0 \/ (DepOf(n) < n /\ test_results[DepOf(n)] = PASS))
                => /\ dirs[n].exists
                   /\ \A i \in RecordsOf(n) : results[i].rationale # MsgFrown

\* a chain of three: the first check failed, the second depends on it and the
\* third on the second, and both are recorded SKIP
C23_Witness ==
    /\ cur = NChecks + 1
    /\ dependency = <<0, 1, 2>>
    /\ test_results[1] = FAIL
    /\ test_results[2] = SKIP
    /\ \E i \in RecordsOf(3) :
          /\ results[i].status = SKIP
          /\ results[i].rationale = MsgFrown
    /\ ~dirs[3].exists

\* C24 as stated: reject on a process that ends before the deadline, with
\* output or without, latches "expected program to reject input, but it did
\* not".
C24_RejectFailsOnTermination ==
    [][\A c \in Objs, raw \in RawOutputs :
       \A fate \in Fates(ProcOf(Heap, c)) \ {"alive"} :
          (/\ InBody
           /\ ~objs[c].failed
           /\ ProcOf(Heap, c).alive
           /\ Call(reject(Heap, c, fate, raw, "none")))
          => /\ objs'[c].failed
             /\ PayOf(NowHeap, c).error_message = MsgReject]_vars

\* C24 as amended: reject on a Child that has not failed returns with the
\* latch unset exactly when wait raised its timeout; on a process that ends
\* before the deadline and wrote valid text it raises nothing and latches a
\* failure, output or not, whose message is the one recorded before, or that
\* of the segmentation fault, or else the reject message; on a process that
\* an earlier wait closed it raises ValueError and latches nothing.
C24_RejectSucceedsOnlyOnTimeout ==
    [][\A c \in Objs : \A w \in Waits(c) :
          LET r == reject(Heap, c, w.fate, w.raw, w.bad)
              before == PayOf(Heap, c).error_message
          IN
          (InBody /\ ~objs[c].failed /\ Call(r))
          => /\ (r.exc = NoExc /\ ~objs'[c].failed)
                   <=> (/\ ~ProcOf(Heap, c).closed
                        /\ w.fate = "alive"
                        /\ w.bad # "loop")
             /\ (~ProcOf(Heap, c).closed /\ w.fate # "alive" /\ w.bad = "none")
                   => /\ r.exc = NoExc
                      /\ objs'[c].failed
                      /\ PayOf(NowHeap, c).output = Normalize(w.raw)
                      /\ PayOf(NowHeap, c).error_message =
                            IF Truthy(before) THEN before
                            ELSE IF ProcOf(NowHeap, c).signalstatus = "SIGSEGV"
                            THEN MsgSegv ELSE MsgReject
             /\ ProcOf(Heap, c).closed
                   => r.exc.type = "ValueError" /\ ~objs'[c].failed]_vars

\* reject failed a process that exited without writing anything
C24_Witness ==
    /\ pc = "body"
    /\ \E c \in DOMAIN objs :
          /\ objs[c].failed
          /\ PayOf(Heap, c).error_message = MsgReject
          /\ PayOf(Heap, c).output = <<>>
          /\ PayOf(Heap, c).exit # "None"
          /\ ProcOf(Heap, c).closed
          /\ Last(log) = RejectLine

\* C25: every result record has status PASS exactly when PASS is stored
\* under the name of its check, so that a check which was gated on a
\* recorded check ran (its directory was staged) exactly when that record
\* says PASS.
C25_RecordAgreesWithStoredResult ==
    /\ \A i \in DOMAIN results :
          results[i].status = PASS <=> test_results[results[i].name] = PASS
    /\ \A n \in Names, m \in Names :
          (n < m /\ Started(m) /\ DepOf(m) = n)
             => \A i \in RecordsOf(n) :
                   results[i].status = PASS <=> dirs[m].exists

\* the first check is recorded PASS and the second, which depends on it, ran
\* and is recorded FAIL; the third depends on the second and is recorded SKIP
C25_Witness ==
    /\ cur = NChecks + 1
    /\ dependency = <<0, 1, 2>>
    /\ \E i \in RecordsOf(1) : results[i].status = PASS
    /\ test_results[1] = PASS
    /\ dirs[2].exists
    /\ \E i \in RecordsOf(2) : results[i].status = FAIL
    /\ test_results[2] = FAIL
    /\ ~dirs[3].exists
    /\ \E i \in RecordsOf(3) : results[i].status = SKIP

====
